---- MODULE Spec2Model ----
(***************************************************************************)
(* A model of namecheap-dns (src/main.py): the import command, which diffs *)
(* the provider's host records against a YAML document and replaces the    *)
(* provider's record set, and the export command, which writes the         *)
(* provider's records as such a document.                                  *)
(*                                                                         *)
(* A Python value is [t |-> "str" | "int", v |-> its text]; a dict is a    *)
(* function from its keys; an insertion-ordered dict keyed by identity is  *)
(* a sequence of entries [k |-> key, v |-> value]; a YAML scalar is        *)
(* [s |-> its text, quoted |-> whether it is written in quotes].           *)
(***************************************************************************)
EXTENDS Integers, Sequences, FiniteSets, TLC

\* Bounds of the model: the longest desired-state document, the largest
\* provider record list, and the number of runs of the program in a row.
MaxDoc == 2
MaxHosts == 2
MaxRuns == 2

VARIABLES
    provider,        \* the host elements the provider holds (getHosts answers with them)
    input_file,      \* args.input_file: the YAML document given to import
    output_file,     \* args.output_file: the YAML document export wrote
    dryrun,          \* args.dryrun
    command,         \* args.command of the run in progress: "import" or "export"
    pc,              \* the run's position: "main", "get_new", "diff", "submit", "done", "failed"
    current,         \* do_import's current
    new,             \* do_import's new
    updated_removed, \* do_import's updated_removed
    updated_added,   \* do_import's updated_added
    data,            \* do_import's data (the setHosts request), NoData until built
    stdout,          \* the lines printed by the run
    events,          \* the run's provider calls and document load, with their outcome
    runs,            \* how many runs were started
    prev             \* the run before this one: [command, pc], NoRun before the first

vars == <<provider, input_file, output_file, dryrun, command, pc, current, new,
          updated_removed, updated_added, data, stdout, events, runs, prev>>

----------------------------------------------------------------------------
\* Python values and dicts

PyStr(s) == [t |-> "str", v |-> s]
PyInt(s) == [t |-> "int", v |-> s]

\* d.pop(k, None)
Pop(d, k) == [x \in DOMAIN d \ {k} |-> d[x]]
\* d[k] = v
Put(d, k, v) == [x \in DOMAIN d \cup {k} |-> IF x = k THEN v ELSE d[x]]

\* Python's order on the strings the model uses (code point order).
StrOrder == <<"1.2.3.4", "10", "1800", "3600", "A", "Address", "HostName",
              "MX", "MXPref", "RecordType", "TTL", "mail", "mx.example.com", "www">>
StrRank(s) == CHOOSE i \in DOMAIN StrOrder : StrOrder[i] = s

\* The texts yaml resolves to an integer when they are written plain.
IntLike == {"10", "1800", "3600"}

----------------------------------------------------------------------------
\* json.dumps(d, sort_keys=True), as the sequence of the tokens of its text

Quote(s) == "\"" \o s \o "\""
JsonValue(v) == IF v.t = "str" THEN Quote(v.v) ELSE v.v

RECURSIVE SortedKeys(_)
SortedKeys(S) ==
    IF S = {} THEN <<>>
    ELSE LET k == CHOOSE x \in S : \A y \in S : StrRank(x) <= StrRank(y)
         IN <<k>> \o SortedKeys(S \ {k})

RECURSIVE JsonItems(_, _)
JsonItems(d, ks) ==
    IF ks = <<>> THEN <<>>
    ELSE <<Quote(ks[1]), ": ", JsonValue(d[ks[1]])>>
         \o (IF Len(ks) > 1 THEN <<", ">> ELSE <<>>)
         \o JsonItems(d, Tail(ks))

json_dumps(d) == <<"{">> \o JsonItems(d, SortedKeys(DOMAIN d)) \o <<"}">>

\* The order of the tokens as Python compares the texts: a quote is below a
\* comma, a comma below a digit, a digit below a colon, a colon below a brace.
\* No token is a prefix of another, so comparing token by token is comparing
\* character by character.
TokenOrder == <<"\"1.2.3.4\"", "\"10\"", "\"1800\"", "\"3600\"",
                "\"Address\"", "\"MXPref\"", "\"TTL\"", "\"mx.example.com\"",
                ", ", "10", "1800", "3600", ": ", "{", "}">>
TokenRank(s) == CHOOSE i \in DOMAIN TokenOrder : TokenOrder[i] = s

----------------------------------------------------------------------------
\* dict_hash: the identity of a record

\* d.pop("HostName") and d.pop("RecordType") raise KeyError on a record without them
HashRaises(d) == ~ ({"HostName", "RecordType"} \subseteq DOMAIN d)

dict_hash(d) ==
    LET name  == d["HostName"]
        type_ == d["RecordType"]
        rest  == Pop(Pop(d, "HostName"), "RecordType")
    IN <<type_, name, json_dumps(rest)>>

\* Python's < on two texts given as token sequences
RECURSIVE TextLess(_, _)
TextLess(a, b) ==
    IF b = <<>> THEN FALSE
    ELSE IF a = <<>> THEN TRUE
    ELSE IF a[1] = b[1] THEN TextLess(Tail(a), Tail(b))
    ELSE TokenRank(a[1]) < TokenRank(b[1])

\* Python's < on two identity tuples (whose type and name are str)
KeyLess(a, b) ==
    IF a[1] # b[1] THEN StrRank(a[1].v) < StrRank(b[1].v)
    ELSE IF a[2] # b[2] THEN StrRank(a[2].v) < StrRank(b[2].v)
    ELSE TextLess(a[3], b[3])

\* sorted(records, key=dict_hash): a stable sort
RECURSIVE Insert(_, _)
Insert(s, r) ==
    IF s = <<>> THEN <<r>>
    ELSE IF KeyLess(dict_hash(r), dict_hash(s[1])) THEN <<r>> \o s
    ELSE <<s[1]>> \o Insert(Tail(s), r)

RECURSIVE SortByHash(_)
SortByHash(records) ==
    IF records = <<>> THEN <<>>
    ELSE LET n == Len(records)
         IN Insert(SortByHash(SubSeq(records, 1, n - 1)), records[n])

----------------------------------------------------------------------------
\* Insertion-ordered dicts keyed by identity

Keys(dict) == {dict[i].k : i \in DOMAIN dict}
HasKey(dict, k) == k \in Keys(dict)
Lookup(dict, k) == dict[CHOOSE i \in DOMAIN dict : dict[i].k = k].v

\* A dict that keeps an entry for every assignment
DictSetAppend(dict, k, v) == Append(dict, [k |-> k, v |-> v])

\* dict[k] = v: a key already there keeps its place and takes the new value
DictSet(dict, k, v) ==
    IF HasKey(dict, k)
    THEN [i \in DOMAIN dict |-> IF dict[i].k = k THEN [k |-> k, v |-> v] ELSE dict[i]]
    ELSE Append(dict, [k |-> k, v |-> v])

\* {dict_hash(r): r for r in records}
RECURSIVE HashDict(_)
HashDict(records) ==
    IF records = <<>> THEN <<>>
    ELSE LET n == Len(records)
         IN DictSet(HashDict(SubSeq(records, 1, n - 1)), dict_hash(records[n]), records[n])

----------------------------------------------------------------------------
\* yaml.safe_load and yaml.dump on a sequence of mappings

Plain(s) == [s |-> s, quoted |-> FALSE]
Quoted(s) == [s |-> s, quoted |-> TRUE]

\* A plain scalar that reads as an integer is loaded as an int, any other
\* scalar as a str.
YamlConstruct(sc) == IF ~sc.quoted /\ sc.s \in IntLike THEN PyInt(sc.s) ELSE PyStr(sc.s)

\* A dump that writes every scalar plain
YamlRepresentPlain(v) == [s |-> v.v, quoted |-> FALSE]

\* A str that would read back as an integer is written in quotes.
YamlRepresent(v) == IF v.t = "int" THEN Plain(v.v) ELSE [s |-> v.v, quoted |-> v.v \in IntLike]

yaml_safe_load(doc) == [i \in DOMAIN doc |-> [k \in DOMAIN doc[i] |-> YamlConstruct(doc[i][k])]]

yaml_dump(records) ==
    [i \in DOMAIN records |-> [k \in DOMAIN records[i] |-> YamlRepresent(records[i][k])]]

----------------------------------------------------------------------------
\* get_records: the provider's host elements as records

\* dict(h.attrib): every attribute value is a str
HostAttrib(h) == [k \in DOMAIN h |-> PyStr(h[k])]

NormalizeRecord(record) ==
    LET r1 == Pop(Pop(Pop(record, "AssociatedAppTitle"), "FriendlyName"), "HostId")
        r2 == Put(Pop(r1, "Name"), "HostName", r1["Name"])
        r3 == Pop(Pop(r2, "IsActive"), "IsDDNSEnabled")
        r4 == IF r3["Type"] # PyStr("MX") THEN Pop(r3, "MXPref") ELSE r3
        r5 == Put(Pop(r4, "Type"), "RecordType", r4["Type"])
    IN IF r5["TTL"] = PyStr("1800") THEN Pop(r5, "TTL") ELSE r5

get_records(hosts) == [i \in DOMAIN hosts |-> NormalizeRecord(HostAttrib(hosts[i]))]

get_current(hosts) == HashDict(get_records(hosts))

\* get_new raises when dict_hash raises on one of the loaded records
GetNewRaises(doc) ==
    LET new_records == yaml_safe_load(doc)
    IN \E i \in DOMAIN new_records : HashRaises(new_records[i])

get_new(doc) == HashDict(yaml_safe_load(doc))

----------------------------------------------------------------------------
\* The differ and the request it leads to

RECURSIVE Missing(_, _, _)
\* the lines printed for the keys of `dict` that are not in `other`, in dict order
Missing(word, dict, other) ==
    IF dict = <<>> THEN <<>>
    ELSE (IF ~HasKey(other, dict[1].k)
          THEN <<[word |-> word, record |-> dict[1].v]>> ELSE <<>>)
         \o Missing(word, Tail(dict), other)

\* A differ that takes a record's place in its collection for part of its identity
remove_unused_records_ordered(cur, nw) ==
    LET all == [i \in DOMAIN cur |-> [word |-> "Removing", record |-> cur[i].v, at |-> i]]
        sel == SelectSeq(all, LAMBDA l : l.at > Len(nw) \/ nw[l.at].k # cur[l.at].k)
        out == [i \in DOMAIN sel |-> [word |-> sel[i].word, record |-> sel[i].record]]
    IN [out |-> out, changed |-> out # <<>>]

\* A differ that takes (type, name) alone for the identity
add_new_records_by_name(cur, nw) ==
    LET known == {<<k[1], k[2]>> : k \in Keys(cur)}
        out == SelectSeq([i \in DOMAIN nw |-> [word |-> "Adding", record |-> nw[i].v]],
                         LAMBDA l : <<l.record["RecordType"], l.record["HostName"]>> \notin known)
    IN [out |-> out, changed |-> out # <<>>]

\* [out |-> the lines printed, changed |-> the value returned]
add_new_records(cur, nw) ==
    LET out == Missing("Adding", nw, cur)
    IN [out |-> out, changed |-> out # <<>>]

remove_unused_records(cur, nw) ==
    LET out == Missing("Removing", cur, nw)
    IN [out |-> out, changed |-> out # <<>>]

\* do_import returns before building the request
ReturnsEarly(removed, added) == ~removed \/ ~added

\* if not args.dryrun: make_namecheap_request(config, data)
SubmitsAlways(dry) == TRUE
SubmitsRequest(dry) == ~dry

NoData == [Command |-> "", params |-> <<>>]

\* A request that numbers the records from the last to the first
BuildDataReversed(nw) ==
    LET names == UNION {{<<k, Len(nw) + 1 - i>> : k \in DOMAIN nw[i].v} : i \in DOMAIN nw}
    IN [Command |-> "namecheap.domains.dns.setHosts",
        params  |-> [kn \in names |-> nw[Len(nw) + 1 - kn[2]].v[kn[1]]]]

\* data[f"{key}{num}"] = value for num, record in zip(count(1), new.values())
BuildData(nw) ==
    LET names == UNION {{<<k, i>> : k \in DOMAIN nw[i].v} : i \in DOMAIN nw}
    IN [Command |-> "namecheap.domains.dns.setHosts",
        params  |-> [kn \in names |-> nw[kn[2]].v[kn[1]]]]

----------------------------------------------------------------------------
\* The provider

Host(name, type, address, ttl, mxpref) ==
    [Name |-> name, Type |-> type, Address |-> address, TTL |-> ttl, MXPref |-> mxpref,
     HostId |-> "1", FriendlyName |-> "", AssociatedAppTitle |-> "",
     IsActive |-> "true", IsDDNSEnabled |-> "false"]

\* The record numbered i of a setHosts request
PlanRecord(d, i) ==
    [k \in {kn[1] : kn \in {x \in DOMAIN d.params : x[2] = i}} |-> d.params[<<k, i>>]]

PlanSize(d) == Cardinality({kn[2] : kn \in DOMAIN d.params})

\* setHosts replaces the whole record set by the request's records; the request
\* is form-encoded, so every value arrives as its text, and a record sent
\* without a TTL or an MXPref gets the provider's default.
SetHosts(d) ==
    [i \in 1..PlanSize(d) |->
        LET r == PlanRecord(d, i)
        IN Host(r["HostName"].v, r["RecordType"].v, r["Address"].v,
                IF "TTL" \in DOMAIN r THEN r["TTL"].v ELSE "1800",
                IF "MXPref" \in DOMAIN r THEN r["MXPref"].v ELSE "10")]

----------------------------------------------------------------------------
\* The inputs

SeqsUpTo(S, n) == UNION {[1..k -> S] : k \in 0..n}

HostUniverse ==
    {Host("www", "A", "1.2.3.4", "1800", "10"),
     Host("www", "A", "1.2.3.4", "3600", "10"),
     Host("mail", "MX", "mx.example.com", "1800", "10")}

DocRecord(name, type, address) ==
    [HostName |-> Plain(name), RecordType |-> Plain(type), Address |-> Plain(address)]

DocUniverse ==
    {DocRecord("www", "A", "1.2.3.4"),
     Put(DocRecord("www", "A", "1.2.3.4"), "TTL", Quoted("1800")),
     Put(DocRecord("www", "A", "1.2.3.4"), "TTL", Plain("1800")),
     Put(DocRecord("www", "A", "1.2.3.4"), "TTL", Quoted("3600")),
     Put(DocRecord("mail", "MX", "mx.example.com"), "MXPref", Quoted("10")),
     Pop(DocRecord("www", "A", "1.2.3.4"), "RecordType")}

NoRun == [command |-> "", pc |-> ""]

----------------------------------------------------------------------------
\* The runs

Init ==
    /\ provider \in SeqsUpTo(HostUniverse, MaxHosts)
    /\ \/ /\ command = "import"
          /\ input_file \in SeqsUpTo(DocUniverse, MaxDoc)
          /\ dryrun \in BOOLEAN
       \/ /\ command = "export"
          /\ input_file = <<>>
          /\ dryrun = FALSE
    /\ output_file = <<>>
    /\ pc = "main"
    /\ current = <<>>
    /\ new = <<>>
    /\ updated_removed = FALSE
    /\ updated_added = FALSE
    /\ data = NoData
    /\ stdout = <<>>
    /\ events = <<>>
    /\ runs = 1
    /\ prev = NoRun

\* do_import, line 147: get_current, the getHosts request answered with Status OK
GetCurrent ==
    /\ command = "import" /\ pc = "main"
    /\ events' = Append(events, "getHosts:ok")
    /\ current' = get_current(provider)
    /\ pc' = "get_new"
    /\ UNCHANGED <<provider, input_file, output_file, dryrun, command, new,
                   updated_removed, updated_added, data, stdout, runs, prev>>

\* make_namecheap_request raises: an HTTP error or a Status other than OK
GetCurrentFails ==
    /\ command = "import" /\ pc = "main"
    /\ events' = Append(events, "getHosts:error")
    /\ pc' = "failed"
    /\ UNCHANGED <<provider, input_file, output_file, dryrun, command, current, new,
                   updated_removed, updated_added, data, stdout, runs, prev>>

\* A get_new that reports a record it cannot hash and goes on without it
GetNewSkipsMalformed ==
    /\ command = "import" /\ pc = "get_new"
    /\ LET new_records == yaml_safe_load(input_file)
       IN /\ events' = Append(events, IF GetNewRaises(input_file) THEN "load:error"
                                                                  ELSE "load:ok")
          /\ new' = HashDict(SelectSeq(new_records, LAMBDA r : ~HashRaises(r)))
    /\ pc' = "diff"
    /\ UNCHANGED <<provider, input_file, output_file, dryrun, command, current,
                   updated_removed, updated_added, data, stdout, runs, prev>>

\* do_import, line 148: get_new
GetNew ==
    /\ command = "import" /\ pc = "get_new"
    /\ IF GetNewRaises(input_file)
       THEN /\ events' = Append(events, "load:error")
            /\ pc' = "failed"
            /\ new' = new
       ELSE /\ events' = Append(events, "load:ok")
            /\ pc' = "diff"
            /\ new' = get_new(input_file)
    /\ UNCHANGED <<provider, input_file, output_file, dryrun, command, current,
                   updated_removed, updated_added, data, stdout, runs, prev>>

\* do_import, lines 150-166: the two comparisons, the early return, the request
Diff ==
    /\ command = "import" /\ pc = "diff"
    /\ LET removed == remove_unused_records(current, new)
           added   == add_new_records(current, new)
       IN /\ stdout' = stdout \o removed.out \o added.out
          /\ updated_removed' = removed.changed
          /\ updated_added' = added.changed
          /\ IF ReturnsEarly(removed.changed, added.changed)
             THEN data' = data /\ pc' = "done"
             ELSE data' = BuildData(new)
                  /\ pc' = IF SubmitsRequest(dryrun) THEN "submit" ELSE "done"
    /\ UNCHANGED <<provider, input_file, output_file, dryrun, command, current, new,
                   events, runs, prev>>

\* do_import, line 167: the setHosts request answered with Status OK
Submit ==
    /\ command = "import" /\ pc = "submit"
    /\ events' = Append(events, "setHosts:ok")
    /\ provider' = SetHosts(data)
    /\ pc' = "done"
    /\ UNCHANGED <<input_file, output_file, dryrun, command, current, new,
                   updated_removed, updated_added, data, stdout, runs, prev>>

SubmitFails ==
    /\ command = "import" /\ pc = "submit"
    /\ events' = Append(events, "setHosts:error")
    /\ pc' = "failed"
    /\ UNCHANGED <<provider, input_file, output_file, dryrun, command, current, new,
                   updated_removed, updated_added, data, stdout, runs, prev>>

\* do_export
Export ==
    /\ command = "export" /\ pc = "main"
    /\ events' = Append(events, "getHosts:ok")
    /\ output_file' = yaml_dump(SortByHash(get_records(provider)))
    /\ pc' = "done"
    /\ UNCHANGED <<provider, input_file, dryrun, command, current, new,
                   updated_removed, updated_added, data, stdout, runs, prev>>

ExportFails ==
    /\ command = "export" /\ pc = "main"
    /\ events' = Append(events, "getHosts:error")
    /\ pc' = "failed"
    /\ UNCHANGED <<provider, input_file, output_file, dryrun, command, current, new,
                   updated_removed, updated_added, data, stdout, runs, prev>>

\* main starts again: every run builds its collections afresh
Fresh ==
    /\ pc' = "main"
    /\ current' = <<>>
    /\ new' = <<>>
    /\ updated_removed' = FALSE
    /\ updated_added' = FALSE
    /\ data' = NoData
    /\ stdout' = <<>>
    /\ events' = <<>>
    /\ runs' = runs + 1
    /\ prev' = [command |-> command, pc |-> pc]

\* The import is run again with the same arguments and the same document.
Rerun ==
    /\ command = "import" /\ pc \in {"done", "failed"} /\ runs < MaxRuns
    /\ Fresh
    /\ UNCHANGED <<provider, input_file, output_file, dryrun, command>>

\* The exported document is given, as it is, to an import.
ImportExport ==
    /\ command = "export" /\ pc = "done" /\ runs < MaxRuns
    /\ Fresh
    /\ command' = "import"
    /\ input_file' = output_file
    /\ dryrun' \in BOOLEAN
    /\ UNCHANGED <<provider, output_file>>

Next ==
    \/ GetCurrent \/ GetCurrentFails \/ GetNew \/ Diff \/ Submit \/ SubmitFails
    \/ Export \/ ExportFails \/ Rerun \/ ImportExport

Spec == Init /\ [][Next]_vars

----------------------------------------------------------------------------
\* What the properties speak of

Range(f) == {f[i] : i \in DOMAIN f}

ReadCalls == {i \in DOMAIN events : events[i] \in {"getHosts:ok", "getHosts:error"}}
WriteCalls == {i \in DOMAIN events : events[i] \in {"setHosts:ok", "setHosts:error"}}
Errors == {i \in DOMAIN events :
              events[i] \in {"getHosts:error", "load:error", "setHosts:error"}}

\* The import run has compared its two collections.
Diffed ==
    /\ command = "import"
    /\ \/ pc \in {"submit", "done"}
       \/ pc = "failed" /\ WriteCalls # {}

ToAdd == Keys(new) \ Keys(current)
ToRemove == Keys(current) \ Keys(new)

Printed(word) == SelectSeq(stdout, LAMBDA l : l.word = word)

\* The records of the request, by their number
Plan == [i \in 1..PlanSize(data) |-> PlanRecord(data, i)]

\* The records of a sequence without those that occurred before in it
RECURSIVE FirstOccurrences(_)
FirstOccurrences(records) ==
    IF records = <<>> THEN <<>>
    ELSE LET n    == Len(records)
             head == SubSeq(records, 1, n - 1)
         IN IF records[n] \in Range(head) THEN FirstOccurrences(head)
            ELSE Append(FirstOccurrences(head), records[n])

PlanSorted ==
    \A i, j \in DOMAIN Plan : i < j => KeyLess(dict_hash(Plan[i]), dict_hash(Plan[j]))

\* A record without a TTL field that holds the provider's default
WithoutDefaultTTL(r) ==
    IF "TTL" \in DOMAIN r /\ r["TTL"].v = "1800" THEN Pop(r, "TTL") ELSE r

\* Two well-formed records of the document have the same identity.
HasDuplicate(doc) ==
    LET recs == yaml_safe_load(doc)
    IN \E i, j \in DOMAIN recs :
          /\ i < j /\ ~HashRaises(recs[i]) /\ ~HashRaises(recs[j])
          /\ dict_hash(recs[i]) = dict_hash(recs[j])

----------------------------------------------------------------------------
\* C1: an import that is not a dry run and has run to its end has made exactly
\* one setHosts call, carrying the desired records, whenever some identity is
\* in desired and not in current or some identity is in current and not in
\* desired; it has made none only when both differences are empty.
C1_WriteWheneverDifferent ==
    (command = "import" /\ pc = "done" /\ ~dryrun)
        => IF ToAdd # {} \/ ToRemove # {}
           THEN /\ Cardinality(WriteCalls) = 1
                /\ Range(Plan) = {new[i].v : i \in DOMAIN new}
           ELSE WriteCalls = {}

\* C2: when current and desired hold the same identities, in whatever order,
\* nothing is printed as added or removed, both comparisons return False and
\* the run ends without a setHosts call.
C2_SameIdentitiesNoWrite ==
    (Diffed /\ Keys(current) = Keys(new))
        => /\ stdout = <<>>
           /\ ~updated_removed /\ ~updated_added
           /\ pc = "done" /\ WriteCalls = {}

C2_Witness ==
    /\ Diffed /\ Keys(current) = Keys(new)
    /\ Len(current) = 2 /\ Len(new) = 2 /\ current[1].k = new[2].k

\* C3: a dry run makes no setHosts call and leaves the provider's record set
\* as it was, while it still reports the differences it found.
C3_DryRunNeverWrites ==
    /\ [](dryrun => WriteCalls = {} /\ pc # "submit")
    /\ [][dryrun => provider' = provider]_vars
    /\ []((dryrun /\ Diffed) =>
            /\ Len(Printed("Removing")) = Cardinality(ToRemove)
            /\ Len(Printed("Adding")) = Cardinality(ToAdd))

C3_Witness ==
    /\ dryrun /\ command = "import" /\ pc = "done"
    /\ data # NoData /\ ToAdd # {} /\ ToRemove # {}

\* C4: an import that follows an import of the same document that ran to its
\* end makes no setHosts call.
C4_SecondRunNoWrite ==
    (command = "import" /\ prev = [command |-> "import", pc |-> "done"])
        => WriteCalls = {} /\ pc # "submit"

C6_TtlElisionEitherSide ==
    \A i \in DOMAIN new, j \in DOMAIN current :
        /\ WithoutDefaultTTL(new[i].v) = WithoutDefaultTTL(current[j].v)
              => new[i].k = current[j].k
        /\ ("TTL" \in DOMAIN new[i].v /\ new[i].v["TTL"].v = "3600"
                /\ Pop(new[i].v, "TTL") = current[j].v)
              => new[i].k # current[j].k

\* C7: an import of the document an export has just written finds nothing to
\* add and nothing to remove, prints nothing and makes no setHosts call.
C7_ExportImportRoundTrip ==
    (command = "import" /\ prev = [command |-> "export", pc |-> "done"])
        => /\ "load:error" \notin Range(events)
           /\ WriteCalls = {} /\ pc # "submit"
           /\ pc \in {"diff", "done"} => ToAdd = {} /\ ToRemove = {}
           /\ stdout = <<>>

C7_Witness ==
    /\ command = "import" /\ prev = [command |-> "export", pc |-> "done"]
    /\ pc = "done" /\ Len(current) = 2
    /\ \E i \in DOMAIN new : "TTL" \in DOMAIN new[i].v

C9_OneReadOneWriteNoWriteAfterError ==
    /\ Cardinality(ReadCalls) <= 1
    /\ Cardinality(WriteCalls) <= 1
    /\ \A w \in WriteCalls :
          /\ \E r \in 1..(w - 1) : events[r] = "getHosts:ok"
          /\ \E l \in 1..(w - 1) : events[l] = "load:ok"
          /\ \A e \in 1..(w - 1) : e \notin Errors
    /\ pc = "submit" => events = <<"getHosts:ok", "load:ok">>
    /\ (\E e \in Errors : events[e] \in {"getHosts:error", "load:error"})
          => pc = "failed" /\ WriteCalls = {}

C9_Witness ==
    /\ pc = "failed" /\ events = <<"getHosts:ok", "load:error">>
    /\ ~dryrun /\ current # <<>>
    /\ \E i \in DOMAIN input_file : "RecordType" \in DOMAIN input_file[i]

====
